---- MODULE Spec2Model ----
(***************************************************************************)
(* A model of dirtio-http: the HTTP/1.1 codec (src/src/codec.rs), the      *)
(* framed transport (src/src/framed.rs) and the per-connection handler     *)
(* (src/src/main.rs).                                                      *)
(*                                                                         *)
(* Bytes are the integers 0..255; buffers are sequences of bytes.  The     *)
(* read side, the write side and the connection handler are each driven    *)
(* by a specification of their own (SpecRead, SpecWrite, SpecProc) over    *)
(* the same variables and the same transport steps; SpecDecode reads       *)
(* rendered requests, SpecSend and SpecFlush send and flush responses.     *)
(***************************************************************************)
EXTENDS Integers, Sequences, FiniteSets

(***************************************************************************)
(* Bounds of the model.                                                    *)
(***************************************************************************)
\* 1024 in the source (8 * 1024): the unit INITIAL_CAPACITY is counted in,
\* scaled so that one response fits under the boundary and two exceed it.
Kilo == 16
\* Pieces a byte stream is made of (SpecRead).
MaxSegs == 2
\* Pieces a byte stream is made of (SpecProc).
MaxProcSegs == 2
\* poll_next calls made after the sequence has ended or failed.
MaxAfter == 1
\* Header lines of the requests that are rendered and decoded (SpecDecode).
MaxListed == 3
\* Header lines of the requests that probe the limit of 64 (SpecDecode).
MaxHeaderLines == 66
\* Turns of the header loop that are taken in one block.
TurnsPerBlock == 16
\* start_send calls of the free write-side driver.
MaxSends == 2
\* A socket write transfers whole blocks of WriteBlock bytes, or everything
\* requested but at most MaxWriteStep bytes.
WriteBlock == 16
MaxWriteStep == 2

(***************************************************************************)
(* Bytes.                                                                  *)
(***************************************************************************)
CR == 13
LF == 10
SP == 32
HT == 9
COLON == 58
SLASH == 47

Digits == 48..57
Alpha == (65..90) \cup (97..122)
\* RFC 7230 tchar: "!#$%&'*+-.^_`|~" DIGIT ALPHA
TokenChars == {33, 35, 36, 37, 38, 39, 42, 43, 45, 46, 94, 95, 96, 124, 126}
                 \cup Digits \cup Alpha
\* Bytes httparse takes in a request target: visible ASCII but '"', '<', '>'.
UriChars == (33..126) \ {34, 60, 62}
\* Bytes httparse takes in a header value.
HeaderValueChars == {HT} \cup (32..126) \cup (128..255)

\* "HTTP/1.1"
HTTP_1_1 == <<72, 84, 84, 80, 47, 49, 46, 49>>
\* "HTTP/1.0"
HTTP_1_0 == <<72, 84, 84, 80, 47, 49, 46, 48>>
\* "HTTP/1."
HTTP_1_ == <<72, 84, 84, 80, 47, 49, 46>>

Min(a, b) == IF a < b THEN a ELSE b

IsPrefix(s, t) == Len(s) <= Len(t) /\ SubSeq(t, 1, Len(s)) = s

Drop(s, n) == SubSeq(s, n + 1, Len(s))

AllIn(s, S) == \A i \in 1..Len(s) : s[i] \in S

(***************************************************************************)
(* httparse::Request::parse, as called by HttpCodec::decode.               *)
(* Every parsing step answers Partial (the bytes end too early), Error, or *)
(* Ok with the position of the next unread byte.                           *)
(***************************************************************************)
\* parsed_headers = [httparse::EMPTY_HEADER; 64]
MaxHeaders == 64

PPartial == [st |-> "Partial"]
PError(k) == [st |-> "Error", kind |-> k]

RECURSIVE SkipEmptyLines(_, _)
SkipEmptyLines(b, i) ==
    IF i > Len(b) THEN PPartial
    ELSE IF b[i] = CR
         THEN IF i + 1 > Len(b) THEN PPartial
              ELSE IF b[i + 1] = LF THEN SkipEmptyLines(b, i + 2)
              ELSE PError("NewLine")
    ELSE IF b[i] = LF THEN SkipEmptyLines(b, i + 1)
    ELSE [st |-> "Ok", pos |-> i]

\* Reads bytes of `allowed` up to a space; pos is the byte after the space.
RECURSIVE ScanToSpace(_, _, _)
ScanToSpace(b, j, allowed) ==
    IF j > Len(b) THEN PPartial
    ELSE IF b[j] = SP THEN [st |-> "Ok", pos |-> j + 1]
    ELSE IF b[j] \notin allowed THEN PError("Token")
    ELSE ScanToSpace(b, j + 1, allowed)

\* The method and the target: at least one byte of `allowed`, then a space.
TokenFrom(b, i, r) ==
    IF r.st # "Ok" THEN r
    ELSE [st |-> "Ok", pos |-> r.pos, tok |-> SubSeq(b, i, r.pos - 2)]

ParseToken(b, i, allowed) ==
    IF i > Len(b) THEN PPartial
    ELSE IF b[i] \notin allowed THEN PError("Token")
    ELSE TokenFrom(b, i, ScanToSpace(b, i + 1, allowed))

\* Eight bytes at once when there are eight; otherwise the bytes there are
\* must begin "HTTP/1." and the answer is Partial.
ParseVersion(b, i) ==
    IF Len(b) - i + 1 >= 8
    THEN IF SubSeq(b, i, i + 7) = HTTP_1_1
         THEN [st |-> "Ok", pos |-> i + 8, version |-> 1]
         ELSE IF SubSeq(b, i, i + 7) = HTTP_1_0
         THEN [st |-> "Ok", pos |-> i + 8, version |-> 0]
         ELSE PError("Version")
    ELSE IF IsPrefix(SubSeq(b, i, Len(b)), HTTP_1_) THEN PPartial
    ELSE PError("Version")

\* The end of a line: CR LF, or a bare LF.
Newline(b, i, kind) ==
    IF i > Len(b) THEN PPartial
    ELSE IF b[i] = CR
         THEN IF i + 1 > Len(b) THEN PPartial
              ELSE IF b[i + 1] = LF THEN [st |-> "Ok", pos |-> i + 2]
              ELSE PError(kind)
    ELSE IF b[i] = LF THEN [st |-> "Ok", pos |-> i + 1]
    ELSE PError(kind)

\* A header name: token bytes up to the colon; pos is the byte after it.
RECURSIVE ScanHeaderName(_, _)
ScanHeaderName(b, j) ==
    IF j > Len(b) THEN PPartial
    ELSE IF b[j] = COLON THEN [st |-> "Ok", pos |-> j + 1]
    ELSE IF b[j] \notin TokenChars THEN PError("HeaderName")
    ELSE ScanHeaderName(b, j + 1)

\* Spaces and tabs between the colon and the value.
RECURSIVE SkipWs(_, _)
SkipWs(b, j) ==
    IF j <= Len(b) /\ b[j] \in {SP, HT} THEN SkipWs(b, j + 1) ELSE j

\* A header value: value bytes up to the end of the line; from..to is the
\* value, pos the byte after the line end.
ValueFrom(from, j, nl) ==
    IF nl.st # "Ok" THEN nl
    ELSE [st |-> "Ok", pos |-> nl.pos, from |-> from, to |-> j - 1]

RECURSIVE ScanHeaderValue(_, _, _)
ScanHeaderValue(b, from, j) ==
    IF j > Len(b) THEN PPartial
    ELSE IF b[j] \in {CR, LF} THEN ValueFrom(from, j, Newline(b, j, "HeaderValue"))
    ELSE IF b[j] \notin HeaderValueChars THEN PError("HeaderValue")
    ELSE ScanHeaderValue(b, from, j + 1)

\* Trailing spaces and tabs are not part of the value.
RECURSIVE TrimRight(_)
TrimRight(s) ==
    IF Len(s) > 0 /\ s[Len(s)] \in {SP, HT} THEN TrimRight(SubSeq(s, 1, Len(s) - 1))
    ELSE s

HeaderOf(b, i, n, v) ==
    [name |-> SubSeq(b, i, n.pos - 2), value |-> TrimRight(SubSeq(b, v.from, v.to))]

\* One header line from i on: its name, its value, its line end.
HeaderLineValue(b, i, n, v) ==
    IF v.st # "Ok" THEN v
    ELSE [st |-> "Header", pos |-> v.pos, header |-> HeaderOf(b, i, n, v)]

HeaderLineValueAt(b, i, n, from) == HeaderLineValue(b, i, n, ScanHeaderValue(b, from, from))

HeaderLineName(b, i, n) ==
    IF n.st # "Ok" THEN n ELSE HeaderLineValueAt(b, i, n, SkipWs(b, n.pos))

HeaderLine(b, i) == HeaderLineName(b, i, ScanHeaderName(b, i + 1))

\* Mutant of HeaderStep: one header more than the array holds is taken.
HeaderStepOneMore(b, i, k) ==
    IF i > Len(b) THEN PPartial
    ELSE IF b[i] \in {CR, LF} THEN Newline(b, i, "NewLine")
    ELSE IF b[i] \notin TokenChars THEN PError("HeaderName")
    ELSE IF k > MaxHeaders THEN PError("TooManyHeaders")
    ELSE HeaderLine(b, i)

\* One turn of the loop over the header lines, at i with k headers parsed:
\* the blank line ends the head ("Ok"), a header line goes on ("Header").
HeaderStep(b, i, k) ==
    IF i > Len(b) THEN PPartial
    ELSE IF b[i] \in {CR, LF} THEN Newline(b, i, "NewLine")
    ELSE IF b[i] \notin TokenChars THEN PError("HeaderName")
    ELSE IF k >= MaxHeaders THEN PError("TooManyHeaders")
    ELSE HeaderLine(b, i)

\* The loop over the header lines: a turn that is a header line appends it
\* and goes on after it; any other turn ends the loop.  The loop is run in
\* blocks of TurnsPerBlock turns; "More" is a block used up.
RECURSIVE HeaderLoop(_, _, _, _)
HeaderTurn(b, hs, turns, r) ==
    IF r.st = "Header" THEN HeaderLoop(b, r.pos, Append(hs, r.header), turns - 1)
    ELSE IF r.st # "Ok" THEN r
    ELSE [st |-> "Ok", pos |-> r.pos, headers |-> hs]

HeaderLoop(b, i, hs, turns) ==
    IF turns = 0 THEN [st |-> "More", pos |-> i, headers |-> hs]
    ELSE HeaderTurn(b, hs, turns, HeaderStep(b, i, Len(hs)))

MoreTurns(b, r) ==
    IF r.st = "More" THEN HeaderLoop(b, r.pos, r.headers, TurnsPerBlock) ELSE r

\* At most MaxHeaders + 1 turns are taken: five blocks hold them.
ParseHeaders(b, i0) ==
    MoreTurns(b, MoreTurns(b, MoreTurns(b, MoreTurns(b,
        HeaderLoop(b, i0, <<>>, TurnsPerBlock)))))

\* Request::parse: empty lines, the method, the target, the version, the
\* end of the request line, the headers.  Complete(offset): offset is the
\* count of bytes through the blank line.
ParseDone(m, u, v, h) ==
    IF h.st # "Ok" THEN h
    ELSE [st |-> "Complete", offset |-> h.pos - 1, method |-> m.tok, path |-> u.tok,
          version |-> v.version, headers |-> h.headers]

ParseAfterLine(b, m, u, v, n) ==
    IF n.st # "Ok" THEN n ELSE ParseDone(m, u, v, ParseHeaders(b, n.pos))

ParseAfterVersion(b, m, u, v) ==
    IF v.st # "Ok" THEN v ELSE ParseAfterLine(b, m, u, v, Newline(b, v.pos, "NewLine"))

ParseAfterTarget(b, m, u) ==
    IF u.st # "Ok" THEN u ELSE ParseAfterVersion(b, m, u, ParseVersion(b, u.pos))

ParseAfterMethod(b, m) ==
    IF m.st # "Ok" THEN m ELSE ParseAfterTarget(b, m, ParseToken(b, m.pos, UriChars))

ParseAfterEmptyLines(b, e) ==
    IF e.st # "Ok" THEN e ELSE ParseAfterMethod(b, ParseToken(b, e.pos, TokenChars))

Parse(b) == ParseAfterEmptyLines(b, SkipEmptyLines(b, 1))

(***************************************************************************)
(* The http crate's request builder, as HttpCodec::decode drives it        *)
(* (codec.rs 102-116): method(), uri() and header() validate their         *)
(* arguments and keep the first failure, which body() then returns.        *)
(***************************************************************************)
\* "http://"
SchemeHttp == <<104, 116, 116, 112, 58, 47, 47>>
\* "https://"
SchemeHttps == <<104, 116, 116, 112, 115, 58, 47, 47>>
\* Bytes of a path and query: visible ASCII but '<', '>' and '`'.
PathChars == (33..126) \ {60, 62, 96}
\* Bytes of an authority: no '/', '?', '#'.
AuthorityChars == Digits \cup Alpha \cup {45, 46, 95, 126, 58, 64, 91, 93}

\* http::Method::from_bytes
MethodOk(m) == Len(m) > 0 /\ AllIn(m, TokenChars)

\* An authority, then nothing or a path.
AuthorityThenPath(s) ==
    \E k \in 1..Len(s) :
        /\ AllIn(SubSeq(s, 1, k), AuthorityChars)
        /\ \/ k = Len(s)
           \/ s[k + 1] = SLASH /\ AllIn(Drop(s, k), PathChars)

\* http::Uri::try_from(&str): "*", an origin-form path, an absolute URI, or
\* an authority alone.  Without a scheme nothing may follow the authority.
UriOk(s) ==
    IF Len(s) = 0 THEN FALSE
    ELSE IF s = <<42>> THEN TRUE
    ELSE IF s[1] = SLASH THEN AllIn(s, PathChars)
    ELSE IF IsPrefix(SchemeHttp, s) THEN AuthorityThenPath(Drop(s, Len(SchemeHttp)))
    ELSE IF IsPrefix(SchemeHttps, s) THEN AuthorityThenPath(Drop(s, Len(SchemeHttps)))
    ELSE AllIn(s, AuthorityChars)

\* http::HeaderName::from_bytes and http::HeaderValue::try_from(&[u8])
HeaderOk(h) ==
    /\ Len(h.name) > 0
    /\ AllIn(h.name, TokenChars)
    /\ AllIn(h.value, HeaderValueChars)

\* A HeaderName is kept in lower case.
Lower(c) == IF c \in 65..90 THEN c + 32 ELSE c
LowerName(s) == [i \in 1..Len(s) |-> Lower(s[i])]

\* HeaderMap::append, for every parsed header in turn: a HeaderMap is a
\* sequence of entries, one per name in the order the names first came, each
\* with its values in arrival order.
FirstOfName(hs) ==
    {i \in 1..Len(hs) :
        \A j \in 1..(i - 1) : LowerName(hs[j].name) # LowerName(hs[i].name)}

\* The header that brings the k-th name.
NthName(hs, firsts, k) ==
    CHOOSE i \in firsts : Cardinality({j \in firsts : j < i}) = k - 1

ValuesIn(sel) == [j \in 1..Len(sel) |-> sel[j].value]

EntryOf(hs, name) ==
    [name |-> name,
     values |-> ValuesIn(SelectSeq(hs, LAMBDA h : LowerName(h.name) = name))]

EntriesOf(hs, firsts) ==
    [k \in 1..Cardinality(firsts) |->
        EntryOf(hs, LowerName(hs[NthName(hs, firsts, k)].name))]

BuildHeaders(hs) == EntriesOf(hs, FirstOfName(hs))

\* Whether request.body(()) succeeds.
BuilderOk(p) ==
    /\ MethodOk(p.method)
    /\ UriOk(p.path)
    /\ \A i \in 1..Len(p.headers) : HeaderOk(p.headers[i])

\* The Request<()> of a parsed head.
RequestOf(p) ==
    [method |-> p.method, uri |-> p.path, version |-> "HTTP/1.1",
     headers |-> BuildHeaders(p.headers)]

(***************************************************************************)
(* HttpCodec::decode and Decoder::decode_eof.  The answer carries `rest`,  *)
(* the buffer after the call.                                              *)
(***************************************************************************)
\* Mutant of SplitTo: the buffer is cleared.
SplitToClears(src, offset) == <<>>

\* BytesMut::split_to(offset), its result dropped: what stays in src.
SplitTo(src, offset) == SubSeq(src, offset + 1, Len(src))

\* Mutant of DecodeParsed: the version is not looked at.
DecodeParsedAnyVersion(src, p) ==
    IF p.st = "Error" THEN [kind |-> "Err", err |-> p.kind, rest |-> src]
    ELSE IF p.st = "Partial" THEN [kind |-> "None", rest |-> src]
    ELSE IF ~BuilderOk(p)
         THEN [kind |-> "Err", err |-> "builder", rest |-> SplitTo(src, p.offset)]
    ELSE [kind |-> "Frame", frame |-> RequestOf(p), rest |-> SplitTo(src, p.offset)]

\* Lines 89-116, p being what r.parse(src) answered at lines 85-87.
DecodeParsed(src, p) ==
    IF p.st = "Error" THEN [kind |-> "Err", err |-> p.kind, rest |-> src]
    ELSE IF p.st = "Partial" THEN [kind |-> "None", rest |-> src]
    ELSE IF p.version # 1
         THEN [kind |-> "Err", err |-> "version not supported", rest |-> src]
    ELSE IF ~BuilderOk(p)
         THEN [kind |-> "Err", err |-> "builder", rest |-> SplitTo(src, p.offset)]
    ELSE [kind |-> "Frame", frame |-> RequestOf(p), rest |-> SplitTo(src, p.offset)]

Decode(src) == DecodeParsed(src, Parse(src))

\* Mutant of DecodeEofOf: bytes left at the end are not an error.
DecodeEofDropsTail(r) ==
    IF r.kind = "None" THEN [kind |-> "None", rest |-> r.rest, inner |-> "None"]
    ELSE IF r.kind = "Err"
         THEN [kind |-> "Err", err |-> r.err, rest |-> r.rest, inner |-> "Err"]
    ELSE [kind |-> "Frame", frame |-> r.frame, rest |-> r.rest, inner |-> "Frame"]

\* Lines 20-29, r being what self.decode(src) answered; `inner` is r's kind.
DecodeEofOf(r) ==
    IF r.kind = "None"
    THEN IF r.rest = <<>>
         THEN [kind |-> "None", rest |-> r.rest, inner |-> "None"]
         ELSE [kind |-> "Err", err |-> "remaining bytes", rest |-> r.rest,
               inner |-> "None"]
    ELSE IF r.kind = "Err"
         THEN [kind |-> "Err", err |-> r.err, rest |-> r.rest, inner |-> "Err"]
    ELSE [kind |-> "Frame", frame |-> r.frame, rest |-> r.rest, inner |-> "Frame"]

DecodeEof(src) == DecodeEofOf(Decode(src))

(***************************************************************************)
(* State.                                                                  *)
(***************************************************************************)
VARIABLES
    \* The peer: every byte it sends before it closes, and the bytes of it
    \* that no read has delivered yet.
    stream, pending,
    \* ReadFrame: buffer, readable, eof.
    rbuf, readable, eof,
    \* poll_next: where the call stands ("idle": not in a call, "read": at
    \* poll_read), what the last call returned, and the item returned.
    rpc, rret, ritem,
    \* History of the read side: the frames yielded before the sequence
    \* ended or failed, how it ended or failed, the buffer the last decode
    \* call was given and what it answered, and whether some read delivered
    \* less than the peer had sent.
    frames, outcome, decIn, lastDecode, splitRead,
    \* The caller of poll_next: its calls after the sequence ended.
    after,
    \* WriteFrame: buffer.
    wbuf,
    \* The raw stream: the bytes written to it, and whether it is closed.
    wire, closed,
    \* The sink: which of poll_ready, poll_flush, poll_close runs, where it
    \* stands, what the last call returned, what poll_write last transferred
    \* in the call ("none", "zero" bytes or "some"), whether encode panicked.
    wop, wpc, wret, lastN, panicked,
    \* History of the write side: the encodings of the accepted items, in
    \* accept order; the start_send calls; whether the last readiness check
    \* succeeded with no accept since; whether the buffer went over the
    \* boundary and has not been empty since.
    sent, nsends, readyOk, overBoundary,
    \* Whether the write buffer was over the boundary when the running sink
    \* call began.
    overAtCall,
    \* process(): where the handler stands, the request it answers and the
    \* response it sends.
    hpc, hreq, hresp

rvars == <<stream, pending, rbuf, readable, eof, rpc, rret, ritem,
           frames, outcome, decIn, lastDecode, splitRead>>
wvars == <<wbuf, wire, closed, wop, wpc, wret, lastN, panicked,
           sent, nsends, readyOk, overBoundary, overAtCall>>
hvars == <<hpc, hreq, hresp>>
vars == <<rvars, after, wvars, hvars>>

\* const INITIAL_CAPACITY: usize = 8 * 1024
INITIAL_CAPACITY == 8 * Kilo

(***************************************************************************)
(* The byte streams a peer sends: pieces, concatenated.                    *)
(***************************************************************************)
\* "GET / HTTP/1.1\r\n\r\n"
ReqPlain == <<71, 69, 84, 32, 47, 32, 72, 84, 84, 80, 47, 49, 46, 49, 13, 10, 13, 10>>
\* "POST /a HTTP/1.1\r\nContent-Length: 2\r\n\r\n"
ReqBody == <<80, 79, 83, 84, 32, 47, 97, 32, 72, 84, 84, 80, 47, 49, 46, 49, 13, 10,
             67, 111, 110, 116, 101, 110, 116, 45, 76, 101, 110, 103, 116, 104, 58,
             32, 50, 13, 10, 13, 10>>
\* "GET / HTTP/1.1\r\nConnection: close\r\n\r\n"
ReqClose == <<71, 69, 84, 32, 47, 32, 72, 84, 84, 80, 47, 49, 46, 49, 13, 10,
              67, 111, 110, 110, 101, 99, 116, 105, 111, 110, 58, 32, 99, 108, 111,
              115, 101, 13, 10, 13, 10>>
\* "GET / HTTP/1.0\r\n\r\n"
ReqOld == <<71, 69, 84, 32, 47, 32, 72, 84, 84, 80, 47, 49, 46, 48, 13, 10, 13, 10>>
\* "GET a/b HTTP/1.1\r\n\r\n": a target httparse takes and http::Uri refuses
ReqBadTarget == <<71, 69, 84, 32, 97, 47, 98, 32, 72, 84, 84, 80, 47, 49, 46, 49,
                  13, 10, 13, 10>>
\* "GET / HT": a request cut short
ReqCut == <<71, 69, 84, 32, 47, 32, 72, 84>>
\* "hi": the body of ReqBody
BodyBytes == <<104, 105>>
\* "\r\n": an empty line before a request
EmptyLine == <<13, 10>>
\* A control byte, which no request starts with
BadByte == <<1>>

Pieces == {ReqPlain, ReqBody, ReqClose, ReqOld, ReqBadTarget, ReqCut, BodyBytes,
           EmptyLine, BadByte}

\* The pieces the connection handler is given.
ProcPieces == {ReqPlain, ReqClose, ReqOld, ReqBadTarget, ReqCut}

\* The streams of at most n pieces.
RECURSIVE StreamsOf(_, _)
StreamsOf(pieces, n) ==
    IF n = 0 THEN {<<>>}
    ELSE StreamsOf(pieces, n - 1)
             \cup {s \o p : s \in StreamsOf(pieces, n - 1), p \in pieces}

(***************************************************************************)
(* HttpFramed::poll_next (framed.rs 37-81).                                *)
(***************************************************************************)
\* Mutant of ExtendFromSlice: the chunk replaces the buffer.
ExtendOverwrites(buffer, chunk) == chunk

\* state.buffer.extend_from_slice(&state.tmp_buf[0..n])
ExtendFromSlice(buffer, chunk) == buffer \o chunk

\* Mutant of AtEof: readable is cleared when decode_eof has answered.
AtEofClearsReadable(r) ==
    [rbuf |-> r.rest, readable |-> FALSE, rpc |-> "idle",
     rret |-> IF r.kind = "Frame" THEN "Frame"
              ELSE IF r.kind = "None" THEN "End" ELSE "Err",
     ritem |-> IF r.kind = "Frame" THEN r.frame
               ELSE IF r.kind = "Err" THEN r.err ELSE "none",
     decoded |-> r.inner]

\* Lines 49-56: what decode_eof answered returns from poll_next.
AtEof(r) ==
    [rbuf |-> r.rest, readable |-> TRUE, rpc |-> "idle",
     rret |-> IF r.kind = "Frame" THEN "Frame"
              ELSE IF r.kind = "None" THEN "End" ELSE "Err",
     ritem |-> IF r.kind = "Frame" THEN r.frame
               ELSE IF r.kind = "Err" THEN r.err ELSE "none",
     decoded |-> r.inner]

\* Mutant of BeforeEof: readable is cleared when a frame is returned, too.
BeforeEofReadsNext(r) ==
    IF r.kind = "None"
    THEN [rbuf |-> r.rest, readable |-> FALSE, rpc |-> "read",
          rret |-> "none", ritem |-> "none", decoded |-> "None"]
    ELSE [rbuf |-> r.rest, readable |-> FALSE, rpc |-> "idle",
          rret |-> r.kind,
          ritem |-> IF r.kind = "Frame" THEN r.frame ELSE r.err,
          decoded |-> r.kind]

\* Lines 59-63: a frame or an error returns; no frame yet clears readable
\* and goes on to poll_read.
BeforeEof(r) ==
    IF r.kind = "None"
    THEN [rbuf |-> r.rest, readable |-> FALSE, rpc |-> "read",
          rret |-> "none", ritem |-> "none", decoded |-> "None"]
    ELSE [rbuf |-> r.rest, readable |-> TRUE, rpc |-> "idle",
          rret |-> r.kind,
          ritem |-> IF r.kind = "Frame" THEN r.frame ELSE r.err,
          decoded |-> r.kind]

\* The loop from its top with readable set (lines 45-64).
LoopTop(buffer, atEof) ==
    IF atEof THEN AtEof(DecodeEof(buffer)) ELSE BeforeEof(Decode(buffer))

\* What a return of poll_next adds to the history.
Record(ret, item) ==
    /\ frames' = IF outcome = "none" /\ ret = "Frame" THEN Append(frames, item)
                 ELSE frames
    /\ outcome' = IF outcome = "none" /\ ret = "End" THEN "end"
                  ELSE IF outcome = "none" /\ ret = "Err" THEN item
                  ELSE outcome

Continue(l, buffer) ==
    /\ decIn' = buffer
    /\ rbuf' = l.rbuf
    /\ readable' = l.readable
    /\ rpc' = l.rpc
    /\ rret' = l.rret
    /\ ritem' = l.ritem
    /\ lastDecode' = l.decoded
    /\ Record(l.rret, l.ritem)

\* A call of poll_next: decode first when readable, else straight to the read.
PollNext ==
    /\ rpc = "idle"
    /\ IF readable
       THEN Continue(LoopTop(rbuf, eof), rbuf)
       ELSE /\ rpc' = "read"
            /\ rret' = "none"
            /\ ritem' = "none"
            /\ UNCHANGED <<rbuf, readable, decIn, lastDecode, frames, outcome>>
    /\ UNCHANGED <<stream, pending, eof, splitRead>>

\* poll_read answers n > 0 bytes (line 76), and the loop goes on.
PollReadOf(n) ==
    /\ rpc = "read"
    /\ n \in 1..Min(INITIAL_CAPACITY, Len(pending))
    /\ pending' = Drop(pending, n)
    /\ splitRead' = (splitRead \/ n < Len(pending))
    /\ Continue(LoopTop(ExtendFromSlice(rbuf, SubSeq(pending, 1, n)), eof),
                ExtendFromSlice(rbuf, SubSeq(pending, 1, n)))
    /\ UNCHANGED <<stream, eof>>

\* ... whatever number of bytes the tmp_buf and the peer allow.
PollReadData == \E n \in 1..Min(INITIAL_CAPACITY, Len(pending)) : PollReadOf(n)

\* Mutant of PollReadEof: eof is set, and the loop goes on as before the end
\* of the stream.
PollReadEofDecodes ==
    /\ rpc = "read"
    /\ pending = <<>>
    /\ eof' = TRUE
    /\ Continue(LoopTop(rbuf, FALSE), rbuf)
    /\ UNCHANGED <<stream, pending, splitRead>>

\* poll_read answers 0: the peer has closed and every byte was delivered
\* (line 74), and the loop goes on.
PollReadEof ==
    /\ rpc = "read"
    /\ pending = <<>>
    /\ eof' = TRUE
    /\ Continue(LoopTop(rbuf, TRUE), rbuf)
    /\ UNCHANGED <<stream, pending, splitRead>>

\* Mutant of PollReadPending: readable is set before Pending is returned.
PollReadPendingSetsReadable ==
    /\ rpc = "read"
    /\ rpc' = "idle"
    /\ rret' = "Pending"
    /\ ritem' = "none"
    /\ readable' = TRUE
    /\ UNCHANGED <<stream, pending, rbuf, eof, frames, outcome, decIn,
                   lastDecode, splitRead>>

\* poll_read answers Pending: ready! returns it.
PollReadPending ==
    /\ rpc = "read"
    /\ rpc' = "idle"
    /\ rret' = "Pending"
    /\ ritem' = "none"
    /\ UNCHANGED <<stream, pending, rbuf, readable, eof, frames, outcome, decIn,
                   lastDecode, splitRead>>

\* poll_read answers an error: ? returns it.
PollReadErr ==
    /\ rpc = "read"
    /\ rpc' = "idle"
    /\ rret' = "Err"
    /\ ritem' = "io"
    /\ Record("Err", "io")
    /\ UNCHANGED <<stream, pending, rbuf, readable, eof, decIn, lastDecode, splitRead>>

(***************************************************************************)
(* The read side under a caller that polls for frames, and goes on a few   *)
(* times after the sequence has ended or failed.                           *)
(***************************************************************************)
InitReadFrame ==
    /\ pending = stream
    /\ rbuf = <<>>
    /\ readable = FALSE
    /\ eof = FALSE
    /\ rpc = "idle"
    /\ rret = "none"
    /\ ritem = "none"
    /\ frames = <<>>
    /\ outcome = "none"
    /\ decIn = <<>>
    /\ lastDecode = "init"
    /\ splitRead = FALSE
    /\ after = 0

InitWriteFrame ==
    /\ wbuf = <<>>
    /\ wire = <<>>
    /\ closed = FALSE
    /\ wop = "none"
    /\ wpc = "idle"
    /\ wret = "none"
    /\ lastN = "none"
    /\ panicked = FALSE
    /\ sent = <<>>
    /\ nsends = 0
    /\ readyOk = FALSE
    /\ overBoundary = FALSE
    /\ overAtCall = FALSE

InitRead ==
    /\ stream \in StreamsOf(Pieces, MaxSegs)
    /\ InitReadFrame
    /\ InitWriteFrame
    /\ hpc = "none"
    /\ hreq = "none"
    /\ hresp = "none"

CallerPolls ==
    /\ outcome = "none" \/ after < MaxAfter
    /\ after' = IF outcome = "none" THEN after ELSE after + 1
    /\ PollNext
    /\ UNCHANGED <<wvars, hvars>>

NextRead ==
    \/ CallerPolls
    \/ PollReadData /\ UNCHANGED <<after, wvars, hvars>>
    \/ PollReadEof /\ UNCHANGED <<after, wvars, hvars>>
    \/ PollReadPending /\ UNCHANGED <<after, wvars, hvars>>
    \/ PollReadErr /\ UNCHANGED <<after, wvars, hvars>>

SpecRead == InitRead /\ [][NextRead]_vars

(***************************************************************************)
(* HttpCodec::encode (codec.rs 38-73).                                     *)
(***************************************************************************)
\* "HTTP/1.1 "
StatusLineHead == <<72, 84, 84, 80, 47, 49, 46, 49, 32>>
\* "Server: dirtio-http\r\n"
ServerLine == <<83, 101, 114, 118, 101, 114, 58, 32, 100, 105, 114, 116, 105, 111, 45,
                104, 116, 116, 112, 13, 10>>
\* "Date: "
DateHead == <<68, 97, 116, 101, 58, 32>>
\* "Content-Length: "
ContentLengthHead == <<67, 111, 110, 116, 101, 110, 116, 45, 76, 101, 110, 103, 116,
                       104, 58, 32>>
\* "\r\n"
CRLF == <<13, 10>>
\* ": "
ColonSpace == <<58, 32>>
\* "OK"
ReasonOk == <<79, 75>>
\* "Not Found"
ReasonNotFound == <<78, 111, 116, 32, 70, 111, 117, 110, 100>>
\* "Internal Server Error"
ReasonInternal == <<73, 110, 116, 101, 114, 110, 97, 108, 32, 83, 101, 114, 118, 101,
                    114, 32, 69, 114, 114, 111, 114>>
\* "Sun, 01 Nov 2026 14:28:00 GMT"
DateA == <<83, 117, 110, 44, 32, 48, 49, 32, 78, 111, 118, 32, 50, 48, 50, 54, 32, 49,
           52, 58, 50, 56, 58, 48, 48, 32, 71, 77, 84>>
\* "Mon, 02 Nov 2026 09:05:59 GMT"
DateB == <<77, 111, 110, 44, 32, 48, 50, 32, 78, 111, 118, 32, 50, 48, 50, 54, 32, 48,
           57, 58, 48, 53, 58, 53, 57, 32, 71, 77, 84>>

\* httpdate::fmt_http_date(SystemTime::now()): the wall clock is an input.
Dates == {DateA, DateB}

\* StatusCode::canonical_reason: None is <<>>.
CanonicalReason(code) ==
    IF code = 200 THEN ReasonOk
    ELSE IF code = 404 THEN ReasonNotFound
    ELSE IF code = 500 THEN ReasonInternal
    ELSE <<>>

\* A number in decimal: StatusCode::as_str, and {} of a usize.
RECURSIVE Decimal(_)
Decimal(n) ==
    IF n < 10 THEN <<48 + n>> ELSE Decimal(n \div 10) \o <<48 + (n % 10)>>

\* HeaderValue::to_str().unwrap_or_else(|_| ""): visible ASCII and tabs only.
ToStr(value) == IF AllIn(value, {HT} \cup (32..126)) THEN value ELSE <<>>

\* Lines 60-65, for the values of one name.
RECURSIVE HeaderLines(_, _)
HeaderLines(name, values) ==
    IF values = <<>> THEN <<>>
    ELSE name \o ColonSpace \o ToStr(Head(values)) \o CRLF
              \o HeaderLines(name, Tail(values))

\* Lines 59-66, over the HeaderMap.
RECURSIVE AllHeaderLines(_)
AllHeaderLines(map) ==
    IF map = <<>> THEN <<>>
    ELSE HeaderLines(Head(map).name, Head(map).values) \o AllHeaderLines(Tail(map))

\* Lines 45-56.
StatusLine(response, date) ==
    StatusLineHead \o Decimal(response.status) \o <<SP>>
        \o CanonicalReason(response.status) \o CRLF
        \o ServerLine
        \o DateHead \o date \o CRLF
        \o ContentLengthHead \o Decimal(Len(response.body)) \o CRLF

\* Mutant of Encoded: the body follows the header lines with no blank line.
EncodedNoBlankLine(response, date) ==
    StatusLine(response, date) \o AllHeaderLines(response.headers) \o response.body

\* Everything encode appends to dst.
Encoded(response, date) ==
    StatusLine(response, date) \o AllHeaderLines(response.headers) \o CRLF
        \o response.body

\* canonical_reason().unwrap() panics inside format!, before any byte is
\* appended.
EncodePanics(response) == CanonicalReason(response.status) = <<>>

(***************************************************************************)
(* The sink: poll_ready, start_send, poll_flush, poll_close                *)
(* (framed.rs 91-146).                                                     *)
(***************************************************************************)
\* backpressure_boundary: INITIAL_CAPACITY (line 183)
BackpressureBoundary == INITIAL_CAPACITY

\* Mutant of Advance: one byte more than was transferred is dropped.
AdvanceTooFar(buffer, n) == SubSeq(buffer, n + 2, Len(buffer))

\* state.buffer.advance(n)
Advance(buffer, n) == SubSeq(buffer, n + 1, Len(buffer))

\* What a poll_write may transfer of `len` requested bytes.
WriteSizes(len) == {n \in 1..len : n % WriteBlock = 0 \/ len - n <= MaxWriteStep}

\* The history of the boundary: over it once the buffer exceeds it, until
\* the buffer is empty.
OverAfter(buffer) ==
    IF buffer = <<>> THEN FALSE
    ELSE IF Len(buffer) > BackpressureBoundary THEN TRUE
    ELSE overBoundary

\* A sink call begins.
Begin(op) ==
    /\ wpc = "idle"
    /\ wop' = op
    /\ lastN' = "none"
    /\ overAtCall' = (Len(wbuf) > BackpressureBoundary)

\* poll_flush from its top (line 117): the writes while the buffer is not
\* empty, then the flush of the raw stream.
FlushFromTop ==
    /\ wpc' = IF wbuf = <<>> THEN "flush" ELSE "write"
    /\ wret' = "none"

\* Mutant of MustFlush: poll_ready never flushes.
MustFlushNever(len) == FALSE

\* state.buffer.len() > state.backpressure_boundary (line 97)
MustFlush(len) == len > BackpressureBoundary

\* poll_ready (lines 95-101).
PollReady ==
    /\ Begin("ready")
    /\ IF MustFlush(Len(wbuf))
       THEN FlushFromTop /\ UNCHANGED readyOk
       ELSE wpc' = "idle" /\ wret' = "Ok" /\ readyOk' = TRUE
    /\ UNCHANGED <<wbuf, wire, closed, panicked, sent, nsends, overBoundary>>

\* Mutant of StartSend: the head of the status line is appended before the
\* panic.
StartSendHeadThenPanic(response) ==
    /\ Begin("send")
    /\ wpc' = "idle"
    /\ IF EncodePanics(response)
       THEN /\ panicked' = TRUE
            /\ wret' = "panic"
            /\ wbuf' = wbuf \o StatusLineHead
            /\ sent' = sent
       ELSE /\ \E date \in Dates :
                 /\ wbuf' = wbuf \o Encoded(response, date)
                 /\ sent' = sent \o Encoded(response, date)
            /\ wret' = "Ok"
            /\ UNCHANGED panicked
    /\ nsends' = nsends + 1
    /\ readyOk' = FALSE
    /\ overBoundary' = OverAfter(wbuf')
    /\ UNCHANGED <<wire, closed>>

\* start_send (lines 104-108): encode into the write buffer, no I/O.
StartSend(response) ==
    /\ Begin("send")
    /\ wpc' = "idle"
    /\ IF EncodePanics(response)
       THEN /\ panicked' = TRUE
            /\ wret' = "panic"
            /\ UNCHANGED <<wbuf, sent>>
       ELSE /\ \E date \in Dates :
                 /\ wbuf' = wbuf \o Encoded(response, date)
                 /\ sent' = sent \o Encoded(response, date)
            /\ wret' = "Ok"
            /\ UNCHANGED panicked
    /\ nsends' = nsends + 1
    /\ readyOk' = FALSE
    /\ overBoundary' = OverAfter(wbuf')
    /\ UNCHANGED <<wire, closed>>

\* poll_flush (lines 114-132).
PollFlush ==
    /\ Begin("flush")
    /\ FlushFromTop
    /\ UNCHANGED <<wbuf, wire, closed, panicked, sent, nsends, readyOk, overBoundary>>

\* Mutant of PollClose: the raw stream is closed without the flush.
PollCloseNoFlush ==
    /\ Begin("close")
    /\ wpc' = "close"
    /\ wret' = "none"
    /\ UNCHANGED <<wbuf, wire, closed, panicked, sent, nsends, readyOk, overBoundary>>

\* poll_close (lines 139-145): poll_flush first.
PollClose ==
    /\ Begin("close")
    /\ FlushFromTop
    /\ UNCHANGED <<wbuf, wire, closed, panicked, sent, nsends, readyOk, overBoundary>>

\* Mutant of PollWriteSome: the loop ends after one write.
PollWriteOnce ==
    /\ wpc = "write"
    /\ \E n \in WriteSizes(Len(wbuf)) :
          /\ wire' = wire \o SubSeq(wbuf, 1, n)
          /\ wbuf' = Advance(wbuf, n)
          /\ lastN' = "some"
    /\ wpc' = "flush"
    /\ overBoundary' = OverAfter(wbuf')
    /\ UNCHANGED <<closed, wop, wret, panicked, sent, nsends, readyOk, overAtCall>>

\* poll_write transfers n > 0 bytes (lines 118-119); the loop goes on while
\* the buffer is not empty.
PollWriteSome ==
    /\ wpc = "write"
    /\ \E n \in WriteSizes(Len(wbuf)) :
          /\ wire' = wire \o SubSeq(wbuf, 1, n)
          /\ wbuf' = Advance(wbuf, n)
          /\ lastN' = "some"
    /\ wpc' = IF wbuf' = <<>> THEN "flush" ELSE "write"
    /\ overBoundary' = OverAfter(wbuf')
    /\ UNCHANGED <<closed, wop, wret, panicked, sent, nsends, readyOk, overAtCall>>

\* Mutant of PollWriteZero: the loop goes round again after a write of 0 bytes.
PollWriteZeroSpins ==
    /\ wpc = "write"
    /\ wbuf' = Advance(wbuf, 0)
    /\ lastN' = "zero"
    /\ wpc' = "write"
    /\ UNCHANGED <<wire, closed, wop, wret, panicked, sent, nsends, readyOk,
                   overBoundary, overAtCall>>

\* poll_write transfers 0 bytes (lines 119-127): WriteZero is returned.
PollWriteZero ==
    /\ wpc = "write"
    /\ wbuf' = Advance(wbuf, 0)
    /\ lastN' = "zero"
    /\ wpc' = "idle"
    /\ wret' = "WriteZero"
    /\ UNCHANGED <<wire, closed, wop, panicked, sent, nsends, readyOk, overBoundary,
                   overAtCall>>

\* The raw stream answers Pending to poll_write, poll_flush or poll_close:
\* ready! returns it.
RawPending ==
    /\ wpc \in {"write", "flush", "close"}
    /\ wpc' = "idle"
    /\ wret' = "Pending"
    /\ UNCHANGED <<wbuf, wire, closed, wop, lastN, panicked, sent, nsends, readyOk,
                   overBoundary, overAtCall>>

\* The raw stream answers an error to poll_write, poll_flush or poll_close:
\* ? returns it.
RawErr ==
    /\ wpc \in {"write", "flush", "close"}
    /\ wpc' = "idle"
    /\ wret' = "Err"
    /\ UNCHANGED <<wbuf, wire, closed, wop, lastN, panicked, sent, nsends, readyOk,
                   overBoundary, overAtCall>>

\* The raw stream's poll_flush succeeds (line 130): poll_flush returns Ok,
\* and poll_close goes on to close the raw stream (line 143).
RawFlushOk ==
    /\ wpc = "flush"
    /\ IF wop = "close"
       THEN wpc' = "close" /\ wret' = "none"
       ELSE wpc' = "idle" /\ wret' = "Ok"
    /\ readyOk' = IF wop = "ready" THEN TRUE ELSE readyOk
    /\ UNCHANGED <<wbuf, wire, closed, wop, lastN, panicked, sent, nsends,
                   overBoundary, overAtCall>>

\* The raw stream's poll_close succeeds (lines 143-145).
RawCloseOk ==
    /\ wpc = "close"
    /\ closed' = TRUE
    /\ wpc' = "idle"
    /\ wret' = "Ok"
    /\ UNCHANGED <<wbuf, wire, wop, lastN, panicked, sent, nsends, readyOk,
                   overBoundary, overAtCall>>

(***************************************************************************)
(* The write side under a caller that may call any of the four sink        *)
(* operations whenever no call is running.                                 *)
(***************************************************************************)
\* "hi"
BodyHi == <<104, 105>>
\* "content-type"
ContentType == <<99, 111, 110, 116, 101, 110, 116, 45, 116, 121, 112, 101>>
\* "text/html"
TextHtml == <<116, 101, 120, 116, 47, 104, 116, 109, 108>>

\* A page, a plain 404, and a status code with no canonical reason.
Responses ==
    {[status |-> 200, headers |-> <<[name |-> ContentType, values |-> <<TextHtml>>]>>,
      body |-> BodyHi],
     [status |-> 404, headers |-> <<>>, body |-> <<>>],
     [status |-> 599, headers |-> <<>>, body |-> <<>>]}

InitWrite ==
    /\ stream = <<>>
    /\ InitReadFrame
    /\ InitWriteFrame
    /\ hpc = "none"
    /\ hreq = "none"
    /\ hresp = "none"

SinkInUse == ~closed /\ ~panicked

NextWrite ==
    \/ SinkInUse /\ PollReady /\ UNCHANGED <<rvars, after, hvars>>
    \/ SinkInUse /\ nsends < MaxSends /\ (\E r \in Responses : StartSend(r))
          /\ UNCHANGED <<rvars, after, hvars>>
    \/ SinkInUse /\ PollFlush /\ UNCHANGED <<rvars, after, hvars>>
    \/ SinkInUse /\ PollClose /\ UNCHANGED <<rvars, after, hvars>>
    \/ PollWriteSome /\ UNCHANGED <<rvars, after, hvars>>
    \/ PollWriteZero /\ UNCHANGED <<rvars, after, hvars>>
    \/ RawPending /\ UNCHANGED <<rvars, after, hvars>>
    \/ RawErr /\ UNCHANGED <<rvars, after, hvars>>
    \/ RawFlushOk /\ UNCHANGED <<rvars, after, hvars>>
    \/ RawCloseOk /\ UNCHANGED <<rvars, after, hvars>>

SpecWrite == InitWrite /\ [][NextWrite]_vars

(***************************************************************************)
(* process() (main.rs 41-65): one request, one response, in turn.          *)
(* transport.next() polls poll_next until it is ready; transport.send()    *)
(* polls poll_ready, calls start_send, then polls poll_flush.              *)
(***************************************************************************)
\* "connection"
ConnectionName == <<99, 111, 110, 110, 101, 99, 116, 105, 111, 110>>
\* "close"
CloseValue == <<99, 108, 111, 115, 101>>

\* respond() (lines 67-95): the file's bytes with the default status 200,
\* or NOT_FOUND with an empty body.  The file system is an input.
Respond(req) ==
    {[status |-> 200, headers |-> <<>>, body |-> BodyHi],
     [status |-> 404, headers |-> <<>>, body |-> <<>>]}

\* Lines 51-55: the first Connection value is "close".
WantsClose(req) ==
    \E i \in 1..Len(req.headers) :
        /\ req.headers[i].name = ConnectionName
        /\ ToStr(Head(req.headers[i].values)) = CloseValue

\* transport.next().await: the first poll, and again after Pending.
ProcNext ==
    /\ hpc = "next" \/ (hpc = "nexting" /\ rret = "Pending")
    /\ PollNext
    /\ hpc' = "nexting"
    /\ UNCHANGED <<hreq, hresp, after, wvars>>

\* Ok(request): respond (line 47).
ProcOnFrame ==
    /\ hpc = "nexting" /\ rpc = "idle" /\ rret = "Frame"
    /\ hreq' = ritem
    /\ hresp' \in Respond(ritem)
    /\ hpc' = "ready"
    /\ UNCHANGED <<rvars, after, wvars>>

\* None: the loop ends (line 64).
ProcOnEnd ==
    /\ hpc = "nexting" /\ rpc = "idle" /\ rret = "End"
    /\ hpc' = "done"
    /\ UNCHANGED <<hreq, hresp, rvars, after, wvars>>

\* Mutant of ProcOnErr: the handler asks for the next frame after an error.
ProcOnErrRetries ==
    /\ hpc = "nexting" /\ rpc = "idle" /\ rret = "Err"
    /\ hpc' = "next"
    /\ UNCHANGED <<hreq, hresp, rvars, after, wvars>>

\* Err(e): return Err(e.into()) (lines 59-61).
ProcOnErr ==
    /\ hpc = "nexting" /\ rpc = "idle" /\ rret = "Err"
    /\ hpc' = "failed"
    /\ UNCHANGED <<hreq, hresp, rvars, after, wvars>>

\* transport.send(response).await: poll_ready, and again after Pending.
ProcReady ==
    /\ hpc = "ready" \/ (hpc = "readying" /\ wret = "Pending")
    /\ PollReady
    /\ hpc' = "readying"
    /\ UNCHANGED <<hreq, hresp, rvars, after>>

\* Mutant of ProcStartSend: the next request is asked for with no flush.
ProcStartSendNoFlush ==
    /\ hpc = "readying" /\ wret = "Ok"
    /\ StartSend(hresp)
    /\ hpc' = IF EncodePanics(hresp) THEN "panicked" ELSE "next"
    /\ UNCHANGED <<hreq, hresp, rvars, after>>

\* ... then start_send.
ProcStartSend ==
    /\ hpc = "readying" /\ wret = "Ok"
    /\ StartSend(hresp)
    /\ hpc' = IF EncodePanics(hresp) THEN "panicked" ELSE "flush"
    /\ UNCHANGED <<hreq, hresp, rvars, after>>

\* ... then poll_flush, and again after Pending.
ProcFlush ==
    /\ hpc = "flush" \/ (hpc = "flushing" /\ wret = "Pending")
    /\ PollFlush
    /\ hpc' = "flushing"
    /\ UNCHANGED <<hreq, hresp, rvars, after>>

\* The response is sent: break on Connection: close, else the next request.
ProcSent ==
    /\ hpc = "flushing" /\ wpc = "idle" /\ wret = "Ok"
    /\ hpc' = IF WantsClose(hreq) THEN "done" ELSE "next"
    /\ UNCHANGED <<hreq, hresp, rvars, after, wvars>>

\* send failed: ? returns the error (line 48).
ProcSendErr ==
    /\ hpc \in {"readying", "flushing"} /\ wpc = "idle"
    /\ wret \in {"Err", "WriteZero"}
    /\ hpc' = "failed"
    /\ UNCHANGED <<hreq, hresp, rvars, after, wvars>>

InitProc ==
    /\ stream \in StreamsOf(ProcPieces, MaxProcSegs)
    /\ InitReadFrame
    /\ InitWriteFrame
    /\ hpc = "next"
    /\ hreq = "none"
    /\ hresp = "none"

NextProc ==
    \/ ProcNext
    \/ ProcOnFrame
    \/ ProcOnEnd
    \/ ProcOnErr
    \/ ProcReady
    \/ ProcStartSend
    \/ ProcFlush
    \/ ProcSent
    \/ ProcSendErr
    \/ PollReadData /\ UNCHANGED <<after, wvars, hvars>>
    \/ PollReadEof /\ UNCHANGED <<after, wvars, hvars>>
    \/ PollReadPending /\ UNCHANGED <<after, wvars, hvars>>
    \/ PollReadErr /\ UNCHANGED <<after, wvars, hvars>>
    \/ PollWriteSome /\ UNCHANGED <<rvars, after, hvars>>
    \/ PollWriteZero /\ UNCHANGED <<rvars, after, hvars>>
    \/ RawPending /\ UNCHANGED <<rvars, after, hvars>>
    \/ RawErr /\ UNCHANGED <<rvars, after, hvars>>
    \/ RawFlushOk /\ UNCHANGED <<rvars, after, hvars>>

SpecProc == InitProc /\ [][NextProc]_vars

(***************************************************************************)
(* The read side, delivered in one chunk: what repeated poll_next calls    *)
(* yield when the first read delivers the whole stream and the next read   *)
(* answers 0.                                                              *)
(***************************************************************************)
RECURSIVE DrainAll(_, _, _)
DrainStep(l, atEof, fs) ==
    IF l.rret = "Frame" THEN DrainAll(l.rbuf, atEof, Append(fs, l.ritem))
    ELSE IF l.rret = "End" THEN [frames |-> fs, outcome |-> "end"]
    ELSE IF l.rret = "Err" THEN [frames |-> fs, outcome |-> l.ritem]
    ELSE DrainAll(l.rbuf, TRUE, fs)

DrainAll(buffer, atEof, fs) == DrainStep(LoopTop(buffer, atEof), atEof, fs)

OneChunk(s) == DrainAll(s, s = <<>>, <<>>)

(***************************************************************************)
(* Claims.                                                                 *)
(***************************************************************************)
SameAsOneChunk(ref) ==
    /\ IsPrefix(frames, ref.frames)
    /\ outcome \notin {"none", "io"} => frames = ref.frames /\ outcome = ref.outcome

\* C1: however the byte stream is split into chunks by the reads (and then
\* ended), the frames poll_next yields, in order, and the way the sequence
\* ends (cleanly, or with which error) are those of the stream delivered in
\* one chunk.
C1_ChunkSplitInvariance ==
    Len(stream) <= INITIAL_CAPACITY => SameAsOneChunk(OneChunk(stream))

\* C1 witness: a stream read in several chunks has yielded two frames and
\* ended cleanly.
C1_Witness == splitRead /\ Len(frames) = 2 /\ outcome = "end"

\* C2: poll_next is at the network read only when the last decode attempt
\* on the buffer answered NoFrameYet, or none was made and the buffer is
\* empty: the buffer then holds no complete request, so complete pipelined
\* requests are all returned before the next read.
C2_DrainBeforeRead ==
    rpc = "read" =>
        /\ lastDecode \in {"init", "None"}
        /\ lastDecode = "init" => rbuf = <<>>
        /\ ~readable
        /\ Parse(rbuf).st = "Partial"

\* C2 witness: two pipelined requests came in one read, both were returned,
\* and only then poll_next is at the next read.
C2_Witness == rpc = "read" /\ ~splitRead /\ Len(frames) = 2 /\ rbuf = <<>>

\* C3: once a read has answered 0, poll_next returns the clean end exactly
\* when the buffer is empty, and the trailing-bytes error when incomplete
\* bytes remain.
C3_EndOfStream ==
    eof =>
        /\ rpc = "idle"
        /\ rret \in {"Frame", "End", "Err"}
        /\ rret = "End" <=> rbuf = <<>>
        /\ (rbuf # <<>> /\ Parse(rbuf).st = "Partial")
               => rret = "Err" /\ ritem = "remaining bytes"

\* C3 witness: a frame was yielded, then the stream ended inside a request
\* and the trailing-bytes error was returned.
C3_Witness ==
    eof /\ Len(frames) = 1 /\ rret = "Err" /\ ritem = "remaining bytes" /\ rbuf # <<>>

(***************************************************************************)
(* Claims about the write side (SpecWrite).                                *)
(***************************************************************************)
\* C4: the bytes delivered to the raw stream followed by the bytes still in
\* the write buffer are the encodings of the accepted items in accept order,
\* whatever the sizes of the writes and the suspensions between them.
C4_WriteByteIntegrity == wire \o wbuf = sent

\* Two items accepted, part of them written, the rest still buffered while
\* the flush is suspended.
C4_Witness ==
    /\ nsends = 2
    /\ wire # <<>>
    /\ wbuf # <<>>
    /\ lastN = "some"
    /\ wpc = "idle"
    /\ wret = "Pending"

\* poll_ready has just reported ready.
JustReady == wop = "ready" /\ wpc = "idle" /\ wret = "Ok"

\* C5 as stated: once the write buffer has held more than
\* backpressure_boundary bytes, poll_ready does not report ready until the
\* buffer has been drained completely.
C5_ReadyOnlyAfterFullDrain == JustReady => ~overBoundary

\* C5, amended: a poll_ready call that finds more than backpressure_boundary
\* bytes runs poll_flush and reports ready only with the buffer empty; a call
\* that finds at most that many reports ready without I/O; after a
\* successful poll_ready and until the accept the buffer holds at most
\* backpressure_boundary bytes.
C5_Backpressure ==
    /\ JustReady => IF overAtCall THEN wbuf = <<>> ELSE lastN = "none"
    /\ (wop = "ready" /\ wpc # "idle") => overAtCall
    /\ readyOk => Len(wbuf) <= BackpressureBoundary

\* poll_ready found the buffer over the boundary, flushed it and reports
\* ready.
C5_Witness == JustReady /\ overAtCall /\ lastN = "some" /\ wbuf = <<>>

\* C6: a write of 0 bytes returns WriteZero at once with the buffer as it
\* was and no further write in the call, and the flush loop goes round only
\* after removing at least one byte.
C6_ZeroWriteFatal ==
    [][ /\ (wpc = "write" /\ lastN' = "zero") =>
              /\ wpc' = "idle"
              /\ wret' = "WriteZero"
              /\ wbuf' = wbuf
              /\ wire' = wire
        /\ (wpc = "write" /\ wpc' = "write") => Len(wbuf') < Len(wbuf) ]_vars

\* A flush that wrote some bytes earlier ends on a write of 0 bytes.
C6_Witness ==
    /\ wret = "WriteZero"
    /\ lastN = "zero"
    /\ wbuf # <<>>
    /\ wire # <<>>

\* C7: the close of the raw stream is invoked only by poll_close after its
\* flush has succeeded, so with the write buffer empty; a poll_close whose
\* flush fails or is pending returns that result without closing.
C7_FlushBeforeClose ==
    [][ /\ (wpc # "close" /\ wpc' = "close") =>
              wop = "close" /\ wpc = "flush" /\ wbuf = <<>>
        /\ wpc' = "close" => wbuf' = <<>>
        /\ (~closed /\ closed') => wpc = "close" /\ wbuf = <<>>
        /\ (wop = "close" /\ wpc \in {"write", "flush"} /\ wpc' = "idle") =>
              wret' \in {"Pending", "Err", "WriteZero"} /\ ~closed' ]_vars

\* poll_close wrote buffered bytes in its flush and is closing the raw
\* stream.
C7_Witness ==
    /\ wop = "close"
    /\ wpc = "close"
    /\ lastN = "some"
    /\ wire = sent
    /\ wire # <<>>

(***************************************************************************)
(* Claims about what decode does to the accumulation buffer (SpecRead).    *)
(***************************************************************************)
\* The first byte of b that is neither CR nor LF, from i on.
RECURSIVE FirstNonBlank(_, _)
FirstNonBlank(b, i) ==
    IF i > Len(b) THEN i
    ELSE IF b[i] \in {CR, LF} THEN FirstNonBlank(b, i + 1)
    ELSE i

\* b[i] is the LF that ends an empty line, the line before it ending at or
\* after `from`.
EndsBlankLine(b, i, from) ==
    /\ b[i] = LF
    /\ \/ i - 1 >= from /\ b[i - 1] = LF
       \/ i - 2 >= from /\ b[i - 1] = CR /\ b[i - 2] = LF

\* The first position of b at or after i that ends an empty line; 0 if none.
RECURSIVE BlankLineFrom(_, _, _)
BlankLineFrom(b, i, from) ==
    IF i > Len(b) THEN 0
    ELSE IF EndsBlankLine(b, i, from) THEN i
    ELSE BlankLineFrom(b, i + 1, from)

\* Where the first request of b ends: the end of the first empty line after
\* the request line has begun.
BlankLineEnd(b) == BlankLineFrom(b, FirstNonBlank(b, 1), FirstNonBlank(b, 1))

IsSuffix(s, t) == Len(s) <= Len(t) /\ SubSeq(t, Len(t) - Len(s) + 1, Len(t)) = s

\* C8: a decode that answers NoFrameYet leaves the buffer as it was given; a
\* decode that answers a frame removes the bytes through the request's
\* terminating blank line and leaves the bytes after it in place.
C8_DecodeFrameEffect ==
    /\ lastDecode = "None" => rbuf = decIn
    /\ lastDecode = "Frame" =>
          /\ BlankLineEnd(decIn) > 0
          /\ rbuf = Drop(decIn, BlankLineEnd(decIn))

\* A request that declares a body of two bytes is decoded, and the two bytes
\* stay in the buffer.
C8_Witness ==
    /\ lastDecode = "Frame"
    /\ decIn = ReqBody \o BodyBytes
    /\ rbuf = BodyBytes

\* C9: the buffer shrinks only at the head and only by a decode that
\* succeeds: a decode that answers an error or NoFrameYet removes nothing.
C9_OnlySuccessfulDecodeShrinks ==
    /\ lastDecode \in {"None", "Err"} => rbuf = decIn
    /\ lastDecode = "Frame" => IsSuffix(rbuf, decIn)

(***************************************************************************)
(* Claims about the connection handler (SpecProc).                         *)
(***************************************************************************)
\* The transport has yielded an error to the handler.
ErrYielded ==
    \/ hpc = "nexting" /\ rpc = "idle" /\ rret = "Err"
    \/ hpc \in {"readying", "flushing"} /\ wpc = "idle" /\ wret \in {"Err", "WriteZero"}

\* C10: when the transport yields an error the handler stops: its next step
\* is to return, touching neither side of the transport, and after it no
\* frame is requested and nothing is sent.
C10_ErrorEndsConnection ==
    [][ /\ ErrYielded => hpc' = "failed" /\ UNCHANGED <<rvars, wvars>>
        /\ hpc = "failed" => UNCHANGED vars ]_vars

\* The handler has stopped on an error with a complete request still in the
\* buffer.
C10_Witness ==
    /\ hpc = "failed"
    /\ rbuf # <<>>
    /\ Decode(rbuf).kind = "Frame"

(***************************************************************************)
(* HttpCodec::decode on requests rendered to HTTP wire text: the peer      *)
(* sends one rendered request and closes; each read delivers as much as    *)
(* the tmp_buf takes.                                                      *)
(***************************************************************************)
\* "GET"
MethodGet == <<71, 69, 84>>
\* "POST"
MethodPost == <<80, 79, 83, 84>>
\* "/"
TargetRoot == <<47>>
\* "/a?b=1"
TargetQuery == <<47, 97, 63, 98, 61, 49>>
\* "HTTP/2.0"
HTTP_2_0 == <<72, 84, 84, 80, 47, 50, 46, 48>>
\* "a"
NameA == <<97>>
\* "b"
NameB == <<98>>
\* "1", "2", "3"
Value1 == <<49>>
Value2 == <<50>>
Value3 == <<51>>

\* Header lines a request may carry: a name twice, with another in between.
HeaderPairs ==
    {[name |-> NameA, value |-> Value1],
     [name |-> NameB, value |-> Value2],
     [name |-> NameA, value |-> Value3]}

\* The sequences over S of at most n elements.
RECURSIVE SeqsUpTo(_, _)
SeqsUpTo(S, n) ==
    IF n = 0 THEN {<<>>}
    ELSE SeqsUpTo(S, n - 1) \cup {Append(q, x) : q \in SeqsUpTo(S, n - 1), x \in S}

\* Requests with a few header lines, in every version text.
ListedRequests ==
    {[method |-> m, uri |-> u, version |-> v, headers |-> h] :
        m \in {MethodGet, MethodPost}, u \in {TargetRoot, TargetQuery},
        v \in {HTTP_1_1, HTTP_1_0, HTTP_2_0}, h \in SeqsUpTo(HeaderPairs, MaxListed)}

\* Requests with n header lines, n up to MaxHeaderLines.
CountedRequests ==
    {[method |-> MethodGet, uri |-> TargetRoot, version |-> HTTP_1_1,
      headers |-> [i \in 1..n |-> [name |-> NameA, value |-> Value1]]] :
        n \in 0..MaxHeaderLines}

\* "name: value\r\n" per header line.
RECURSIVE RenderHeaders(_)
RenderHeaders(hs) ==
    IF hs = <<>> THEN <<>>
    ELSE Head(hs).name \o ColonSpace \o Head(hs).value \o CRLF \o RenderHeaders(Tail(hs))

\* The wire text of a request: request line, header lines, blank line.
Render(req) ==
    req.method \o <<SP>> \o req.uri \o <<SP>> \o req.version \o CRLF
        \o RenderHeaders(req.headers) \o CRLF

InitDecode ==
    /\ hreq \in ListedRequests \cup CountedRequests
    /\ stream = Render(hreq)
    /\ InitReadFrame
    /\ InitWriteFrame
    /\ hpc = "none"
    /\ hresp = "none"

\* poll_read fills the tmp_buf, or delivers what is left.
PollReadFull == \E n \in {Min(INITIAL_CAPACITY, Len(pending))} : PollReadOf(n)

NextDecode ==
    \/ CallerPolls
    \/ PollReadFull /\ UNCHANGED <<after, wvars, hvars>>
    \/ PollReadEof /\ UNCHANGED <<after, wvars, hvars>>

SpecDecode == InitDecode /\ [][NextDecode]_vars

\* C11: a request whose version text is not HTTP/1.1 never yields a
\* Request, and decode of its complete block answers an error.
C11_UnsupportedVersion ==
    hreq.version # HTTP_1_1 =>
        /\ frames = <<>>
        /\ lastDecode # "Frame"
        /\ decIn = stream =>
              /\ lastDecode = "Err"
              /\ rret = "Err"
              /\ ritem \in {"version not supported", "Version"}
              /\ outcome = ritem

\* An HTTP/1.0 request with header lines was given to decode whole and
\* refused for its version.
C11_Witness ==
    /\ hreq.version = HTTP_1_0
    /\ hreq.headers # <<>>
    /\ decIn = stream
    /\ lastDecode = "Err"
    /\ ritem = "version not supported"

\* C12: an HTTP/1.1 request with n well-formed header lines decodes to a
\* Request for every n up to 64, and fails with TooManyHeaders for every n
\* from 65 on.
C12_HeaderCountLimit ==
    hreq.version = HTTP_1_1 =>
        /\ lastDecode = "Frame" => Len(hreq.headers) <= 64
        /\ decIn = stream =>
              IF Len(hreq.headers) <= 64
              THEN lastDecode = "Frame" /\ rret = "Frame" /\ rbuf = <<>>
              ELSE lastDecode = "Err" /\ rret = "Err" /\ ritem = "TooManyHeaders"
        /\ outcome # "none" =>
              IF Len(hreq.headers) <= 64
              THEN outcome = "end" /\ Len(frames) = 1
              ELSE outcome = "TooManyHeaders" /\ frames = <<>>

\* A complete request with 65 header lines was given to decode and refused.
C12_Witness ==
    /\ Len(hreq.headers) = 65
    /\ decIn = stream
    /\ lastDecode = "Err"
    /\ ritem = "TooManyHeaders"

\* The entries of a HeaderMap as its iteration gives them: name by name,
\* the values of a name together.
EntryPairs(e) == [j \in 1..Len(e.values) |-> [name |-> e.name, value |-> e.values[j]]]

RECURSIVE Entries(_)
Entries(map) ==
    IF map = <<>> THEN <<>> ELSE EntryPairs(Head(map)) \o Entries(Tail(map))

\* The header list a request was rendered from, names in lower case.
ListedPairs(hs) ==
    [i \in 1..Len(hs) |-> [name |-> LowerName(hs[i].name), value |-> hs[i].value]]

\* C13: the Request decoded from the wire text of an HTTP/1.1 request has
\* the method and the target it was rendered from, version 1.1, and the
\* header entries of the rendered list in the order of the list, and the
\* buffer is consumed.
C13_RequestRoundTrip ==
    (hreq.version = HTTP_1_1 /\ decIn = stream /\ lastDecode = "Frame") =>
        /\ ritem.method = hreq.method
        /\ ritem.uri = hreq.uri
        /\ ritem.version = "HTTP/1.1"
        /\ Entries(ritem.headers) = ListedPairs(hreq.headers)
        /\ rbuf = <<>>

(***************************************************************************)
(* start_send and poll_flush with the accepted response on record          *)
(* (framed.rs 104-133): the caller sends responses of every shape and      *)
(* flushes between them or not.                                            *)
(***************************************************************************)
\* "x-a"
NameXA == <<120, 45, 97>>
\* "x-b"
NameXB == <<120, 45, 98>>
\* "hello world!"
BodyHello == <<104, 101, 108, 108, 111, 32, 119, 111, 114, 108, 100, 33>>
\* A header value that is not visible ASCII (obs-text).
ValueOpaque == <<200>>

\* The responses of the write side, a response with a name of two values, an
\* opaque value and a body of two-digit length, and the same with a status
\* code that has no canonical reason.
SendResponses ==
    Responses \cup
    {[status |-> code,
      headers |-> <<[name |-> NameXA, values |-> <<Value1, Value2>>],
                    [name |-> NameXB, values |-> <<ValueOpaque>>]>>,
      body |-> BodyHello] : code \in {500, 599}}

\* start_send(item), the item kept on record.
Send(response) ==
    /\ StartSend(response)
    /\ hresp' = response
    /\ UNCHANGED <<hpc, hreq>>

NextSend ==
    \/ SinkInUse /\ nsends < MaxSends /\ (\E r \in SendResponses : Send(r))
          /\ UNCHANGED <<rvars, after>>
    \/ SinkInUse /\ PollFlush /\ UNCHANGED <<rvars, after, hvars>>
    \/ PollWriteSome /\ UNCHANGED <<rvars, after, hvars>>
    \/ RawPending /\ UNCHANGED <<rvars, after, hvars>>
    \/ RawFlushOk /\ UNCHANGED <<rvars, after, hvars>>

SpecSend == InitWrite /\ [][NextSend]_vars

\* The number a string of decimal digits denotes.
RECURSIVE DecimalValue(_)
DecimalValue(ds) ==
    IF ds = <<>> THEN 0
    ELSE DecimalValue(SubSeq(ds, 1, Len(ds) - 1)) * 10 + (ds[Len(ds)] - 48)

\* The line ends (CR LF) of a head, and the k-th line between them.
LineEnds(head) == {p \in 1..(Len(head) - 1) : head[p] = CR /\ head[p + 1] = LF}
LineEnd(head, k) ==
    CHOOSE p \in LineEnds(head) : Cardinality({q \in LineEnds(head) : q < p}) = k - 1
LineOf(head, k) ==
    SubSeq(head, IF k = 1 THEN 1 ELSE LineEnd(head, k - 1) + 2, LineEnd(head, k) - 1)

\* The head of a response is laid out as: status line, Server, Date,
\* Content-Length, one line per header entry, blank line.
HeadLayout(head, response, pairs) ==
    /\ Cardinality(LineEnds(head)) = 5 + Len(pairs)
    /\ Len(head) - 1 \in LineEnds(head)
    /\ LineOf(head, 1) = StatusLineHead \o Decimal(response.status) \o <<SP>>
                             \o CanonicalReason(response.status)
    /\ LineOf(head, 2) \o CRLF = ServerLine
    /\ \E date \in Dates : LineOf(head, 3) = DateHead \o date
    /\ IsPrefix(ContentLengthHead, LineOf(head, 4))
    /\ AllIn(Drop(LineOf(head, 4), Len(ContentLengthHead)), Digits)
    /\ DecimalValue(Drop(LineOf(head, 4), Len(ContentLengthHead))) = Len(response.body)
    /\ \A k \in 1..Len(pairs) :
          LineOf(head, 4 + k) = pairs[k].name \o ColonSpace \o ToStr(pairs[k].value)
    /\ LineOf(head, 5 + Len(pairs)) = <<>>

\* What was appended is a head of that layout and then the body.
AppendedLayout(appended, response) ==
    /\ IsSuffix(response.body, appended)
    /\ HeadLayout(SubSeq(appended, 1, Len(appended) - Len(response.body)),
                  response, Entries(response.headers))

\* A start_send of a response whose status code has a canonical reason.
SendsMapped ==
    /\ nsends' = nsends + 1
    /\ CanonicalReason(hresp'.status) # <<>>

\* C14: encode of a response with a mapped status code appends, in this
\* order, the status line, the Server, Date and Content-Length headers (the
\* length of the body), one line per header entry, a blank line, and the
\* body as the last bytes; the bytes already in the write buffer stay in
\* front.
C14_ResponseLayout ==
    [][SendsMapped =>
          /\ IsPrefix(wbuf, wbuf')
          /\ AppendedLayout(Drop(wbuf', Len(wbuf)), hresp')
          /\ wret' = "Ok"]_vars

C14_Witness ==
    /\ wop = "send" /\ wret = "Ok"
    /\ nsends = 2
    /\ hresp.status = 500
    /\ wire # <<>>
    /\ Len(wbuf) > Len(hresp.body) + Len(wire)

\* A start_send of a response whose status code has no canonical reason.
SendsUnmapped ==
    /\ nsends' = nsends + 1
    /\ CanonicalReason(hresp'.status) = <<>>

SequenceEnded ==
    /\ rpc = "idle"
    /\ \/ rret = "End"
       \/ rret = "Err" /\ ritem = "remaining bytes"

\* C16: once poll_next has returned None or the trailing-bytes error, every
\* later call returns the same again: it yields no frame, goes to no network
\* read, and leaves buffer, readable, eof and the peer's undelivered bytes as
\* they were.
C16_NotRestartable ==
    [][SequenceEnded =>
          /\ rpc' = "idle"
          /\ rret' = rret /\ ritem' = ritem
          /\ rbuf' = rbuf /\ readable' = readable /\ eof' = eof
          /\ readable /\ eof
          /\ pending' = pending
          /\ frames' = frames /\ outcome' = outcome]_vars

C16_Witness ==
    /\ after = MaxAfter
    /\ rret = "Err" /\ ritem = "remaining bytes"
    /\ rbuf # <<>>
    /\ frames # <<>>

\* The frames poll_next has handed to the handler: the frame its last call
\* returned is handed over when the handler takes it.
FramesTaken ==
    IF hpc = "nexting" /\ rpc = "idle" /\ rret = "Frame" THEN Len(frames) - 1
    ELSE Len(frames)

\* Where the handler stands against the responses accepted and written.
PairingInv ==
    /\ hpc \in {"next", "nexting"} =>
          /\ wbuf = <<>>
          /\ wire = sent
          /\ nsends = FramesTaken
    /\ hpc \in {"ready", "readying"} =>
          /\ nsends + 1 = Len(frames)
          /\ hreq = frames[Len(frames)]
          /\ wire = sent
    /\ hpc \in {"flush", "flushing"} =>
          /\ nsends = Len(frames)
          /\ hreq = frames[Len(frames)]
    /\ nsends <= Len(frames)
    /\ IsPrefix(wire, sent)

\* C17: in process(), the n-th response accepted is the response to the n-th
\* request yielded, it is accepted with every earlier response written out
\* in full, and the next request is asked for only with the write buffer
\* empty and every accepted response on the raw stream, in accept order.
C17_SequentialPairing ==
    /\ []PairingInv
    /\ [][nsends' # nsends =>
             /\ nsends' = nsends + 1
             /\ nsends' = Len(frames)
             /\ hresp \in Respond(frames[Len(frames)])
             /\ wbuf = <<>> /\ wire = sent
             /\ \E date \in Dates : sent' = sent \o Encoded(hresp, date)]_vars
    /\ [][(hpc' \in {"next", "nexting"} /\ hpc # hpc') =>
             wbuf' = <<>> /\ wire' = sent']_vars

C17_Witness ==
    /\ hpc = "nexting" /\ rpc = "read"
    /\ nsends = 2
    /\ Len(frames) = 2
    /\ wire = sent /\ wire # <<>>

\* poll_next has returned Pending and has not been called again.
Suspended == rpc = "idle" /\ rret = "Pending"

\* C18: poll_next returns Pending only from the network read, with the
\* buffer, the flags and the undelivered bytes as the read found them; while
\* it is suspended readable and eof are false and the buffer is empty from
\* the start or is the buffer the last decode was given and answered
\* NoFrameYet for; the next call goes to the network read with the buffer
\* and the frames as they were.
C18_SuspendsOnlyAtRead ==
    /\ [](Suspended =>
             /\ ~readable
             /\ ~eof
             /\ lastDecode \in {"init", "None"}
             /\ lastDecode = "init" => rbuf = <<>>
             /\ lastDecode = "None" => rbuf = decIn /\ Decode(rbuf).kind = "None")
    /\ [][(rret' = "Pending" /\ ~Suspended) =>
             /\ rpc = "read" /\ rpc' = "idle"
             /\ rbuf' = rbuf /\ readable' = readable /\ eof' = eof
             /\ pending' = pending
             /\ frames' = frames /\ outcome' = outcome]_vars
    /\ [][Suspended =>
             /\ rpc' = "read" /\ rret' = "none"
             /\ rbuf' = rbuf /\ readable' = readable /\ eof' = eof
             /\ decIn' = decIn /\ lastDecode' = lastDecode
             /\ pending' = pending
             /\ frames' = frames /\ outcome' = outcome]_vars

C18_Witness ==
    /\ Suspended
    /\ rbuf # <<>>
    /\ lastDecode = "None"
    /\ frames # <<>>
    /\ pending # <<>>

\* A network read that delivers no byte and returns neither Pending nor an
\* I/O error: it has returned 0.
ReadsZero ==
    /\ rpc = "read"
    /\ pending' = pending
    /\ rret' \in {"Frame", "End", "Err"}
    /\ ritem' # "io"

\* What poll_next returns for an answer of decode_eof.
ReturnedAtEof(r) ==
    /\ rbuf' = r.rest
    /\ rret' = (IF r.kind = "Frame" THEN "Frame"
                ELSE IF r.kind = "None" THEN "End" ELSE "Err")
    /\ r.kind = "Err" => ritem' = r.err

\* C20: a network read that returns 0 sets eof; eof is never unset; with eof
\* set readable is set and poll_next is at no network read, no byte is taken
\* from the peer, and every return of poll_next is the answer of decode_eof
\* on the buffer.
C20_EofSticky ==
    /\ [][ReadsZero => eof']_vars
    /\ [][eof => eof']_vars
    /\ [](eof => readable /\ rpc = "idle")
    /\ [][eof' => pending' = pending /\ ReturnedAtEof(DecodeEof(rbuf))]_vars

C20_Witness ==
    /\ eof /\ readable
    /\ rret = "End"
    /\ after >= 1
    /\ frames # <<>>
    /\ splitRead

(***************************************************************************)
(* poll_flush (framed.rs 110-133) on a raw stream whose poll_write and     *)
(* poll_flush answer Pending any number of times but in the end complete   *)
(* (a write with at least one byte), under a caller that polls a suspended *)
(* flush again before anything else.                                       *)
(***************************************************************************)
\* poll_flush is polled again after it returned Pending.
FlushRepoll ==
    /\ SinkInUse
    /\ wop = "flush" /\ wret = "Pending"
    /\ PollFlush
    /\ UNCHANGED <<rvars, after, hvars>>

FlushWrites == PollWriteSome /\ UNCHANGED <<rvars, after, hvars>>

FlushCompletes == RawFlushOk /\ UNCHANGED <<rvars, after, hvars>>

NextFlush ==
    \/ SinkInUse /\ wret # "Pending" /\ nsends < MaxSends
          /\ (\E r \in Responses : Send(r)) /\ UNCHANGED <<rvars, after>>
    \/ SinkInUse /\ wret # "Pending" /\ PollFlush /\ UNCHANGED <<rvars, after, hvars>>
    \/ FlushRepoll
    \/ FlushWrites
    \/ RawPending /\ UNCHANGED <<rvars, after, hvars>>
    \/ FlushCompletes

SpecFlush ==
    /\ InitWrite
    /\ [][NextFlush]_vars
    /\ WF_vars(FlushRepoll)
    /\ SF_vars(FlushWrites)
    /\ SF_vars(FlushCompletes)

\* A poll_flush call is running or suspended.
FlushCalled == wop = "flush" /\ (wpc # "idle" \/ wret = "Pending")

\* poll_flush has returned success.
FlushDone == wop = "flush" /\ wpc = "idle" /\ wret = "Ok"

\* C19: when the raw stream's calls complete in the end, each write with at
\* least one byte, and a suspended poll_flush is polled again, a poll_flush
\* that was called returns success with the write buffer empty; every write
\* takes at least one byte off the buffer and the buffer does not grow while
\* the flush is under way, so the writes are no more than the bytes the
\* buffer held at the call.
C19_FlushTerminates ==
    /\ FlushCalled ~> (FlushDone /\ wbuf = <<>>)
    /\ [](FlushDone => wbuf = <<>> /\ wire = sent)
    /\ [][wire' # wire =>
             /\ Len(wbuf') < Len(wbuf)
             /\ Len(wire') - Len(wire) = Len(wbuf) - Len(wbuf')]_vars
    /\ [][FlushCalled => Len(wbuf') <= Len(wbuf)]_vars

C19_Witness ==
    /\ FlushDone
    /\ wbuf = <<>>
    /\ nsends = 2
    /\ lastN = "some"
    /\ wire = sent

====
